---- MODULE Spec2Model ----
(***************************************************************************)
(* Bencode codec of bit-by-bit: encode_bencode, decode_bencode and the     *)
(* info-hash of src/script.py, and the earlier decoder of src/main.py.     *)
(*                                                                         *)
(* A byte string is a sequence of byte values 0..255.  A Python value is a *)
(* tagged record [t, n, b, xs, items]: t is "int", "bytes", "list" or       *)
(* "dict", and the payload is n (the integer), b (the bytes), xs (the      *)
(* list's elements) or items (the dict's items in insertion order, the     *)
(* order Python's dict keeps, each item [k |-> key, v |-> value]); the     *)
(* fields a type does not use are 0 and <<>>.                              *)
(***************************************************************************)
EXTENDS Integers, Sequences, FiniteSets, TLC

(***************************************************************************)
(* Bytes the code dispatches on.                                           *)
(***************************************************************************)
OrdI == 105
OrdL == 108
OrdD == 100
OrdE == 101
OrdColon == 58

(***************************************************************************)
(* Python values.                                                          *)
(***************************************************************************)
PyInt(n) == [t |-> "int", n |-> n, b |-> <<>>, xs |-> <<>>, items |-> <<>>]
PyBytes(s) == [t |-> "bytes", n |-> 0, b |-> s, xs |-> <<>>, items |-> <<>>]
PyList(xs) == [t |-> "list", n |-> 0, b |-> <<>>, xs |-> xs, items |-> <<>>]
PyDict(items) == [t |-> "dict", n |-> 0, b |-> <<>>, xs |-> <<>>, items |-> items]
PyNone == [t |-> "none", n |-> 0, b |-> <<>>, xs |-> <<>>, items |-> <<>>]

Min(a, b) == IF a < b THEN a ELSE b

\* Python's s[a:b] and s[a:] for 0 <= a (indices are 0-based, b is clamped).
Slice(s, a, b) == SubSeq(s, a + 1, Min(b, Len(s)))
SliceFrom(s, a) == SubSeq(s, a + 1, Len(s))

\* bytes.find(c, start): the 0-based index of the first c at or after start, or -1.
RECURSIVE Find(_, _, _)
Find(s, c, start) ==
    IF start >= Len(s) THEN -1
    ELSE IF s[start + 1] = c THEN start
    ELSE Find(s, c, start + 1)

\* chr(b).isdigit() for a byte b: the ASCII digits, and the Latin-1 superscript
\* digits U+00B2, U+00B3, U+00B9, which str.isdigit() also accepts.
PyIsDigit(b) == b \in (48..57) \cup {178, 179, 185}

(***************************************************************************)
(* int(bytes): surrounding ASCII whitespace is stripped, one sign '+' or   *)
(* '-' may lead, and the digits may be grouped by single underscores.      *)
(***************************************************************************)
PyWhitespace == {9, 10, 11, 12, 13, 32}
AsciiDigits == 48..57

RECURSIVE LStrip(_)
LStrip(s) == IF s # <<>> /\ s[1] \in PyWhitespace THEN LStrip(Tail(s)) ELSE s

RECURSIVE RStrip(_)
RStrip(s) ==
    IF s # <<>> /\ s[Len(s)] \in PyWhitespace THEN RStrip(SubSeq(s, 1, Len(s) - 1)) ELSE s

DigitsOK(s) ==
    /\ s # <<>>
    /\ s[1] \in AsciiDigits
    /\ s[Len(s)] \in AsciiDigits
    /\ \A j \in 1..Len(s) : s[j] \in AsciiDigits \cup {95}
    /\ \A j \in 1..(Len(s) - 1) : ~(s[j] = 95 /\ s[j + 1] = 95)

RECURSIVE DigitsVal(_, _)
DigitsVal(s, acc) ==
    IF s = <<>> THEN acc
    ELSE IF s[1] = 95 THEN DigitsVal(Tail(s), acc)
    ELSE DigitsVal(Tail(s), 10 * acc + (s[1] - 48))

\* [ok |-> FALSE, n |-> 0] stands for Python's ValueError.
PyIntOf(s) ==
    LET body == RStrip(LStrip(s))
        signed == body # <<>> /\ body[1] \in {43, 45}
        digits == IF signed THEN Tail(body) ELSE body
    IN  IF DigitsOK(digits)
        THEN [ok |-> TRUE,
              n |-> IF signed /\ body[1] = 45 THEN 0 - DigitsVal(digits, 0)
                    ELSE DigitsVal(digits, 0)]
        ELSE [ok |-> FALSE, n |-> 0]

\* str(n) for an int n, as ASCII bytes (the f-string's "{data}").
RECURSIVE NatStr(_)
NatStr(n) == IF n < 10 THEN <<48 + n>> ELSE NatStr(n \div 10) \o <<48 + (n % 10)>>

IntStr(n) == IF n < 0 THEN <<45>> \o NatStr(0 - n) ELSE NatStr(n)

(***************************************************************************)
(* encode_bencode (src/script.py).                                         *)
(***************************************************************************)
\* Python's bytes ordering: by unsigned byte value, a proper prefix first.
RECURSIVE BytesLess(_, _)
BytesLess(a, b) ==
    IF b = <<>> THEN FALSE
    ELSE IF a = <<>> THEN TRUE
    ELSE IF a[1] # b[1] THEN a[1] < b[1]
    ELSE BytesLess(Tail(a), Tail(b))

\* Faulty variant of SortedItems: the items in insertion order, as if the
\* loop ran over data.items() without sorted().
SortedItems_Unsorted(items) == items

\* sorted(data.items()): the keys of a dict are distinct, so the tuples are
\* ordered by key alone.
RECURSIVE SortedItems(_)
SortedItems(items) ==
    IF items = <<>> THEN <<>>
    ELSE LET m == CHOOSE j \in 1..Len(items) :
                    \A h \in 1..Len(items) :
                        h = j \/ BytesLess(items[j].k.b, items[h].k.b)
             others == [h \in 1..(Len(items) - 1) |->
                            IF h < m THEN items[h] ELSE items[h + 1]]
         IN  <<items[m]>> \o SortedItems(others)

RECURSIVE encode_bencode(_)
RECURSIVE EncodeJoin(_)
RECURSIVE EncodeItems(_)

\* b"".join(encode_bencode(item) for item in data)
EncodeJoin(xs) ==
    IF xs = <<>> THEN <<>> ELSE encode_bencode(xs[1]) \o EncodeJoin(Tail(xs))

\* the loop over the sorted items
EncodeItems(items) ==
    IF items = <<>> THEN <<>>
    ELSE encode_bencode(items[1].k) \o encode_bencode(items[1].v)
         \o EncodeItems(Tail(items))

\* Faulty variant of EncodeInt: the sign of a negative integer is lost.
EncodeInt_NoSign(n) == <<OrdI>> \o NatStr(IF n < 0 THEN 0 - n ELSE n) \o <<OrdE>>

EncodeInt(n) == <<OrdI>> \o IntStr(n) \o <<OrdE>>

EncodeBytes(s) == IntStr(Len(s)) \o <<OrdColon>> \o s

encode_bencode(data) ==
    IF data.t = "int" THEN EncodeInt(data.n)
    ELSE IF data.t = "bytes" THEN EncodeBytes(data.b)
    ELSE IF data.t = "list" THEN <<OrdL>> \o EncodeJoin(data.xs) \o <<OrdE>>
    ELSE <<OrdD>> \o EncodeItems(SortedItems(data.items)) \o <<OrdE>>

(***************************************************************************)
(* decode_bencode (src/script.py).  A result is                            *)
(* [exc, msg, value, rest]: exc = "" on success, else the exception class. *)
(***************************************************************************)
Ok(value, rest) == [exc |-> "", msg |-> "", value |-> value, rest |-> rest]
Raise(exc, msg) == [exc |-> exc, msg |-> msg, value |-> PyNone, rest |-> <<>>]
BencodeDecodeError(msg) == Raise("BencodeDecodeError", msg)

\* decoded_dict[key] = value: a new key is appended, a key already present
\* keeps its place and takes the new value.
DictSet(items, key, value) ==
    IF \E j \in 1..Len(items) : items[j].k = key
    THEN [j \in 1..Len(items) |->
            IF items[j].k = key THEN [k |-> key, v |-> value] ELSE items[j]]
    ELSE Append(items, [k |-> key, v |-> value])

\* Faulty variant of _decode_string: the boundary test is >= instead of >, so a
\* string that ends exactly at the end of the input is refused.
_decode_string_OffByOne(bencoded_value) ==
    LET first_colon_index == Find(bencoded_value, OrdColon, 0)
        parsed == PyIntOf(Slice(bencoded_value, 0, first_colon_index))
        length == parsed.n
        start_index == first_colon_index + 1
        end_index == start_index + length
    IN  IF first_colon_index = -1
        THEN BencodeDecodeError("Invalid Bencoded string: missing colon")
        ELSE IF ~parsed.ok
        THEN BencodeDecodeError("Invalid Bencoded string: non-numeric length")
        ELSE IF end_index >= Len(bencoded_value)
        THEN BencodeDecodeError("Invalid Bencoded string: length mismatch")
        ELSE Ok(PyBytes(Slice(bencoded_value, start_index, end_index)),
                SliceFrom(bencoded_value, end_index))

\* Faulty variant of _decode_string: the remainder is sliced from length
\* instead of end_index, so the length prefix is not consumed.
_decode_string_RestFromLength(bencoded_value) ==
    LET first_colon_index == Find(bencoded_value, OrdColon, 0)
        parsed == PyIntOf(Slice(bencoded_value, 0, first_colon_index))
        length == parsed.n
        start_index == first_colon_index + 1
        end_index == start_index + length
    IN  IF first_colon_index = -1
        THEN BencodeDecodeError("Invalid Bencoded string: missing colon")
        ELSE IF ~parsed.ok
        THEN BencodeDecodeError("Invalid Bencoded string: non-numeric length")
        ELSE IF end_index > Len(bencoded_value)
        THEN BencodeDecodeError("Invalid Bencoded string: length mismatch")
        ELSE Ok(PyBytes(Slice(bencoded_value, start_index, end_index)),
                SliceFrom(bencoded_value, length))

_decode_string(bencoded_value) ==
    LET first_colon_index == Find(bencoded_value, OrdColon, 0)
        parsed == PyIntOf(Slice(bencoded_value, 0, first_colon_index))
        length == parsed.n
        start_index == first_colon_index + 1
        end_index == start_index + length
    IN  IF first_colon_index = -1
        THEN BencodeDecodeError("Invalid Bencoded string: missing colon")
        ELSE IF ~parsed.ok
        THEN BencodeDecodeError("Invalid Bencoded string: non-numeric length")
        ELSE IF end_index > Len(bencoded_value)
        THEN BencodeDecodeError("Invalid Bencoded string: length mismatch")
        ELSE Ok(PyBytes(Slice(bencoded_value, start_index, end_index)),
                SliceFrom(bencoded_value, end_index))

\* bytes.rfind(c): the 0-based index of the last c, or -1.
RECURSIVE RFind(_, _, _)
RFind(s, c, from) ==
    IF from < 1 THEN -1
    ELSE IF s[from] = c THEN from - 1
    ELSE RFind(s, c, from - 1)

\* Faulty variant of _decode_integer: the terminator is the last 'e' of the
\* input (rfind) instead of the first one after 'i' (find).
_decode_integer_LastE(bencoded_value) ==
    LET found == RFind(bencoded_value, OrdE, Len(bencoded_value))
        end_index == IF found < 1 THEN -1 ELSE found
        parsed == PyIntOf(Slice(bencoded_value, 1, end_index))
    IN  IF end_index = -1
        THEN BencodeDecodeError("Invalid encoded integer: missing 'e'")
        ELSE IF ~parsed.ok
        THEN BencodeDecodeError("Invalid encoded integer: non-numeric content")
        ELSE Ok(PyInt(parsed.n), SliceFrom(bencoded_value, end_index + 1))

_decode_integer(bencoded_value) ==
    LET end_index == Find(bencoded_value, OrdE, 1)
        parsed == PyIntOf(Slice(bencoded_value, 1, end_index))
    IN  IF end_index = -1
        THEN BencodeDecodeError("Invalid encoded integer: missing 'e'")
        ELSE IF ~parsed.ok
        THEN BencodeDecodeError("Invalid encoded integer: non-numeric content")
        ELSE Ok(PyInt(parsed.n), SliceFrom(bencoded_value, end_index + 1))

RECURSIVE decode_bencode(_)
RECURSIVE ListLoop(_, _)
RECURSIVE DictLoop(_, _)

\* the while loop of _decode_list and the check after it
ListLoop(decoded_list, rest) ==
    IF rest # <<>> /\ rest[1] # OrdE
    THEN LET item == decode_bencode(rest)
         IN  IF item.exc # "" THEN item
             ELSE ListLoop(Append(decoded_list, item.value), item.rest)
    ELSE IF rest = <<>> \/ rest[1] # OrdE
    THEN BencodeDecodeError("Invalid Bencoded list: missing 'e'")
    ELSE Ok(PyList(decoded_list), Tail(rest))

_decode_list(bencoded_value) == ListLoop(<<>>, Tail(bencoded_value))

\* Faulty variant of DictLoop: the isinstance(key, bytes) check is missing.
DictLoop_AnyKey(decoded_dict, rest) ==
    IF rest # <<>> /\ rest[1] # OrdE
    THEN LET key == decode_bencode(rest)
         IN  IF key.exc # "" THEN key
             ELSE LET value == decode_bencode(key.rest)
                  IN  IF value.exc # "" THEN value
                      ELSE DictLoop(DictSet(decoded_dict, key.value, value.value),
                                    value.rest)
    ELSE IF rest = <<>> \/ rest[1] # OrdE
    THEN BencodeDecodeError("Invalid Bencoded dictionary: missing 'e'")
    ELSE Ok(PyDict(decoded_dict), Tail(rest))

\* the while loop of _decode_dict and the check after it
DictLoop(decoded_dict, rest) ==
    IF rest # <<>> /\ rest[1] # OrdE
    THEN LET key == decode_bencode(rest)
         IN  IF key.exc # "" THEN key
             ELSE IF key.value.t # "bytes"
             THEN BencodeDecodeError("Invalid Bencoded dictionary: key must be a string")
             ELSE LET value == decode_bencode(key.rest)
                  IN  IF value.exc # "" THEN value
                      ELSE DictLoop(DictSet(decoded_dict, key.value, value.value),
                                    value.rest)
    ELSE IF rest = <<>> \/ rest[1] # OrdE
    THEN BencodeDecodeError("Invalid Bencoded dictionary: missing 'e'")
    ELSE Ok(PyDict(decoded_dict), Tail(rest))

_decode_dict(bencoded_value) == DictLoop(<<>>, Tail(bencoded_value))

decode_bencode(bencoded_value) ==
    IF bencoded_value = <<>> THEN BencodeDecodeError("Empty input")
    ELSE IF PyIsDigit(bencoded_value[1]) THEN _decode_string(bencoded_value)
    ELSE IF bencoded_value[1] = OrdI THEN _decode_integer(bencoded_value)
    ELSE IF bencoded_value[1] = OrdL THEN _decode_list(bencoded_value)
    ELSE IF bencoded_value[1] = OrdD THEN _decode_dict(bencoded_value)
    ELSE BencodeDecodeError("Unsupported Bencode type")

(***************************************************************************)
(* decode_bencode of src/main.py, the earlier decoder: no check for empty  *)
(* input (indexing b"" raises IndexError), int() of the length prefix is   *)
(* not wrapped, and every error is a ValueError.                           *)
(***************************************************************************)
ValueError(msg) == Raise("ValueError", msg)
IndexError == Raise("IndexError", "index out of range")

RECURSIVE main_decode_bencode(_)
RECURSIVE MainListLoop(_, _)
RECURSIVE MainDictLoop(_, _)

MainDecodeString(bencoded_value) ==
    LET first_colon_index == Find(bencoded_value, OrdColon, 0)
        parsed == PyIntOf(Slice(bencoded_value, 0, first_colon_index))
        length == parsed.n
        start_index == first_colon_index + 1
        end_index == start_index + length
    IN  IF first_colon_index = -1
        THEN ValueError("Invalid bencoded string: missing colon")
        ELSE IF ~parsed.ok
        THEN ValueError("invalid literal for int() with base 10")
        ELSE IF end_index > Len(bencoded_value)
        THEN ValueError("Invalid bencoded string: length mismatch")
        ELSE Ok(PyBytes(Slice(bencoded_value, start_index, end_index)),
                SliceFrom(bencoded_value, end_index))

MainDecodeInteger(bencoded_value) ==
    LET end_index == Find(bencoded_value, OrdE, 1)
        parsed == PyIntOf(Slice(bencoded_value, 1, end_index))
    IN  IF end_index = -1
        THEN ValueError("Invalid encoded integer: missing 'e'")
        ELSE IF ~parsed.ok
        THEN ValueError("Invalid encoded integer: non-numeric content")
        ELSE Ok(PyInt(parsed.n), SliceFrom(bencoded_value, end_index + 1))

MainListLoop(decoded_list, rest) ==
    IF rest # <<>> /\ rest[1] # OrdE
    THEN LET item == main_decode_bencode(rest)
         IN  IF item.exc # "" THEN item
             ELSE MainListLoop(Append(decoded_list, item.value), item.rest)
    ELSE IF rest = <<>> \/ rest[1] # OrdE
    THEN ValueError("Invalid bencoded list: missing 'e'")
    ELSE Ok(PyList(decoded_list), Tail(rest))

MainDictLoop(decoded_dict, rest) ==
    IF rest # <<>> /\ rest[1] # OrdE
    THEN LET key == main_decode_bencode(rest)
         IN  IF key.exc # "" THEN key
             ELSE IF key.value.t # "bytes"
             THEN ValueError("Invalid bencoded dictionary: key must be a string")
             ELSE LET value == main_decode_bencode(key.rest)
                  IN  IF value.exc # "" THEN value
                      ELSE MainDictLoop(DictSet(decoded_dict, key.value, value.value),
                                        value.rest)
    ELSE IF rest = <<>> \/ rest[1] # OrdE
    THEN ValueError("Invalid bencoded dictionary: missing 'e'")
    ELSE Ok(PyDict(decoded_dict), Tail(rest))

main_decode_bencode(bencoded_value) ==
    IF bencoded_value = <<>> THEN IndexError
    ELSE IF PyIsDigit(bencoded_value[1]) THEN MainDecodeString(bencoded_value)
    ELSE IF bencoded_value[1] = OrdI THEN MainDecodeInteger(bencoded_value)
    ELSE IF bencoded_value[1] = OrdL THEN MainListLoop(<<>>, Tail(bencoded_value))
    ELSE IF bencoded_value[1] = OrdD THEN MainDictLoop(<<>>, Tail(bencoded_value))
    ELSE ValueError("Unsupported bencode type")

(***************************************************************************)
(* calculate_info_hash (src/script.py).  SHA-1 is not computed: its place  *)
(* is taken by a 16-bit positional checksum of the bytes, rendered as four *)
(* lowercase hexadecimal digits.  Like SHA-1 it is a function of the bytes *)
(* alone; unlike SHA-1 it collides on inputs within the model's bounds.    *)
(***************************************************************************)
RECURSIVE Checksum(_, _)
Checksum(data, h) ==
    IF data = <<>> THEN h
    ELSE Checksum(Tail(data), (h * 31 + data[1] + 1) % 65536)

HexDigit(n) == IF n < 10 THEN 48 + n ELSE 87 + n

sha1_hexdigest(data) ==
    LET h == Checksum(data, 7)
    IN  <<HexDigit(h \div 4096), HexDigit((h \div 256) % 16),
          HexDigit((h \div 16) % 16), HexDigit(h % 16)>>

calculate_info_hash(info_dict) ==
    LET info_bencoded == encode_bencode(info_dict)
    IN  sha1_hexdigest(info_bencoded)

(***************************************************************************)
(* Python's == on values: lists compare in order, dicts by their key/value *)
(* pairs whatever the insertion order.                                     *)
(***************************************************************************)
RECURSIVE PyEq(_, _)
PyEq(a, b) ==
    IF a.t # b.t THEN FALSE
    ELSE IF a.t = "list"
    THEN Len(a.xs) = Len(b.xs) /\ \A j \in 1..Len(a.xs) : PyEq(a.xs[j], b.xs[j])
    ELSE IF a.t = "dict"
    THEN /\ Len(a.items) = Len(b.items)
         /\ \A j \in 1..Len(a.items) :
                \E h \in 1..Len(b.items) :
                    a.items[j].k = b.items[h].k /\ PyEq(a.items[j].v, b.items[h].v)
    ELSE a = b

(***************************************************************************)
(* Bounds and input sets.                                                  *)
(***************************************************************************)
\* longest raw input enumerated byte by byte
MaxLen == 5
\* most nodes (atoms, lists, dicts) of a value handed to encode_bencode
MaxNodes == 4
\* most nodes of a value whose encoding, cut at every length, is a raw input
InputNodes == 3

\* '0' '1' ':' 'd' 'e' 'i' 'l' '-' 'a'
Alphabet == {48, 49, 58, 100, 101, 105, 108, 45, 97}

ShortStrings == UNION {[1..n -> Alphabet] : n \in 0..MaxLen}

\* -12, 0, b"", b"1:e", b"aaaaaaaaaa"
Atoms == {PyInt(-12), PyInt(0), PyBytes(<<>>), PyBytes(<<49, 58, 101>>),
          PyBytes(<<97, 97, 97, 97, 97, 97, 97, 97, 97, 97>>)}

\* b"b", b"ab"
Keys == {<<98>>, <<97, 98>>}

KeySeqs(n) == {ks \in [1..n -> Keys] : \A j, h \in 1..n : ks[j] = ks[h] => j = h}

\* the values of n >= 2 nodes, from the sequences S of values whose node counts
\* add up to n - 1: each as a list, and as a dict in every insertion order
ContainersOf(S) ==
    {PyList(xs) : xs \in S}
    \cup UNION {{PyDict([j \in 1..Len(xs) |-> [k |-> PyBytes(ks[j]), v |-> xs[j]]]) :
                    ks \in KeySeqs(Len(xs))} : xs \in S}

\* vals[k]: the values of exactly k nodes; seqs[m + 1]: the sequences of values
\* whose node counts add up to m
RECURSIVE BuildValues(_, _, _, _)
BuildValues(vals, seqs, n, limit) ==
    IF n > limit THEN vals
    ELSE LET S == IF n = 1 THEN {<<>>}
                  ELSE UNION {{<<x>> \o r : x \in vals[k], r \in seqs[n - k]} :
                                 k \in 1..(n - 1)}
             V == IF n = 1 THEN Atoms \cup {PyList(<<>>), PyDict(<<>>)}
                  ELSE ContainersOf(S)
         IN  BuildValues(Append(vals, V), Append(seqs, S), n + 1, limit)

ValuesUpTo(limit) ==
    LET vals == BuildValues(<<>>, <<>>, 1, limit)
    IN  UNION {vals[k] : k \in 1..limit}

\* the values equal to v under ==: v with the items of its dicts in any order
RECURSIVE Reorderings(_)
RECURSIVE ProductOf(_)
ProductOf(sets) ==
    IF sets = <<>> THEN {<<>>}
    ELSE {<<x>> \o r : x \in sets[1], r \in ProductOf(Tail(sets))}

Reorderings(v) ==
    IF v.t = "list"
    THEN {PyList(xs) : xs \in ProductOf([j \in 1..Len(v.xs) |-> Reorderings(v.xs[j])])}
    ELSE IF v.t = "dict"
    THEN LET n == Len(v.items)
             vals == ProductOf([j \in 1..n |-> Reorderings(v.items[j].v)])
         IN  {PyDict([j \in 1..n |-> [k |-> v.items[p[j]].k, v |-> xs[p[j]]]]) :
                 p \in Permutations(1..n), xs \in vals}
    ELSE {v}

\* every prefix of the encoding of a small value: whole, or cut short anywhere
EncodedPrefixes ==
    UNION {LET e == encode_bencode(v) IN {SubSeq(e, 1, n) : n \in 0..Len(e)} :
              v \in ValuesUpTo(InputNodes)}

\* one input for every leading byte
SingleBytes == {<<b>> : b \in 0..255}

\* inputs with bytes outside Alphabet: "i+1e", "i 1e", "i1_1e", "i1 e", "i+e",
\* "1 :a", " 1:a", "1_0:aaaaaaaaaa", "+1:a", "\xb2:", "\xb21:a", "10:aaaaaaaaaa",
\* "d1:a1:bi1 ee"
Probes ==
    { <<105, 43, 49, 101>>, <<105, 32, 49, 101>>, <<105, 49, 95, 49, 101>>,
      <<105, 49, 32, 101>>, <<105, 43, 101>>,
      <<49, 32, 58, 97>>, <<32, 49, 58, 97>>,
      <<49, 95, 48, 58, 97, 97, 97, 97, 97, 97, 97, 97, 97, 97>>,
      <<43, 49, 58, 97>>, <<178, 58>>, <<178, 49, 58, 97>>,
      <<49, 48, 58, 97, 97, 97, 97, 97, 97, 97, 97, 97, 97>>,
      <<100, 49, 58, 97, 49, 58, 98, 105, 49, 32, 101, 101>> }

Inputs == ShortStrings \cup EncodedPrefixes \cup SingleBytes \cup Probes

\* bytes that may follow a complete value: "e", "0", ":", "i1e"
Tails == {<<101>>, <<48>>, <<58>>, <<105, 49, 101>>}

(***************************************************************************)
(* State.                                                                  *)
(***************************************************************************)
VARIABLES
    pc,             \* where the run is
    input,          \* the bytes given to the decoder
    tail,           \* the bytes that followed input in the framed decode
    result,         \* decode_bencode(input) of src/script.py
    framed,         \* decode_bencode(input + tail) of src/script.py
    mresult,        \* decode_bencode(input) of src/main.py
    obj,            \* the value given to the encoder
    other,          \* a value equal to obj, built in another order
    encoded,        \* encode_bencode(obj)
    encoded_other,  \* encode_bencode(other)
    decoded,        \* decode_bencode(encoded)
    digest,         \* calculate_info_hash(obj)
    digest_other    \* calculate_info_hash(other)

decode_vars == <<input, tail, result, framed, mresult>>
codec_vars == <<obj, other, encoded, encoded_other, decoded, digest, digest_other>>
vars == <<pc, input, tail, result, framed, mresult,
          obj, other, encoded, encoded_other, decoded, digest, digest_other>>

NoResult == Raise("", "")

DecodeIdle ==
    /\ input = <<>> /\ tail = <<>>
    /\ result = NoResult /\ framed = NoResult /\ mresult = NoResult

CodecIdle ==
    /\ obj = PyNone /\ other = PyNone
    /\ encoded = <<>> /\ encoded_other = <<>> /\ decoded = NoResult
    /\ digest = <<>> /\ digest_other = <<>>

(***************************************************************************)
(* Spec: the decoders run on raw input.                                    *)
(***************************************************************************)
Init ==
    /\ pc = "start"
    /\ input \in Inputs
    /\ tail = <<>>
    /\ result = NoResult /\ framed = NoResult /\ mresult = NoResult
    /\ CodecIdle

\* decode_command of src/script.py: decode_bencode on the whole input
Decode ==
    /\ pc = "start"
    /\ result' = decode_bencode(input)
    /\ pc' = "decoded"
    /\ UNCHANGED <<input, tail, framed, mresult>>
    /\ UNCHANGED codec_vars

\* the same decoder on the input followed by more bytes
DecodeFramed ==
    /\ pc = "decoded"
    /\ \E r \in Tails :
        /\ tail' = r
        /\ framed' = decode_bencode(input \o r)
    /\ pc' = "framed"
    /\ UNCHANGED <<input, result, mresult>>
    /\ UNCHANGED codec_vars

\* the decode command of src/main.py
MainDecode ==
    /\ pc = "start"
    /\ mresult' = main_decode_bencode(input)
    /\ pc' = "main_decoded"
    /\ UNCHANGED <<input, tail, result, framed>>
    /\ UNCHANGED codec_vars

Next == Decode \/ DecodeFramed \/ MainDecode

Spec == Init /\ [][Next]_vars

(***************************************************************************)
(* SpecCodec: values are encoded, decoded back and hashed.                 *)
(***************************************************************************)
InitCodec ==
    /\ pc = "start"
    /\ obj \in ValuesUpTo(MaxNodes)
    /\ other \in Reorderings(obj)
    /\ encoded = <<>> /\ encoded_other = <<>> /\ decoded = NoResult
    /\ digest = <<>> /\ digest_other = <<>>
    /\ DecodeIdle

Encode ==
    /\ pc = "start"
    /\ encoded' = encode_bencode(obj)
    /\ encoded_other' = encode_bencode(other)
    /\ pc' = "encoded"
    /\ UNCHANGED <<obj, other, decoded, digest, digest_other>>
    /\ UNCHANGED decode_vars

DecodeEncoded ==
    /\ pc = "encoded"
    /\ decoded' = decode_bencode(encoded)
    /\ pc' = "roundtrip"
    /\ UNCHANGED <<obj, other, encoded, encoded_other, digest, digest_other>>
    /\ UNCHANGED decode_vars

InfoHash ==
    /\ pc = "start"
    /\ digest' = calculate_info_hash(obj)
    /\ digest_other' = calculate_info_hash(other)
    /\ pc' = "hashed"
    /\ UNCHANGED <<obj, other, encoded, encoded_other, decoded>>
    /\ UNCHANGED decode_vars

NextCodec == Encode \/ DecodeEncoded \/ InfoHash

SpecCodec == InitCodec /\ [][NextCodec]_vars

(***************************************************************************)
(* Vocabulary of the properties.                                           *)
(***************************************************************************)
IsValue(r) == r.exc = "" /\ r.value.t # "none"
IsError(r) == r.exc # ""

\* the error kinds, by the exception and message each decoder raises
IsDecodeError(r) == r.exc \in {"BencodeDecodeError", "ValueError"}
EmptyInputKind(r) == IsDecodeError(r) /\ r.msg = "Empty input"
UnsupportedTypeKind(r) ==
    IsDecodeError(r) /\ r.msg \in {"Unsupported Bencode type", "Unsupported bencode type"}
MalformedLengthKind(r) ==
    IsDecodeError(r) /\ r.msg \in {"Invalid Bencoded string: missing colon",
                                   "Invalid Bencoded string: non-numeric length",
                                   "Invalid Bencoded string: length mismatch",
                                   "Invalid bencoded string: missing colon",
                                   "invalid literal for int() with base 10",
                                   "Invalid bencoded string: length mismatch"}
LengthMismatchKind(r) ==
    IsDecodeError(r) /\ r.msg \in {"Invalid Bencoded string: length mismatch",
                                   "Invalid bencoded string: length mismatch"}
MalformedIntegerKind(r) ==
    IsDecodeError(r) /\ r.msg \in {"Invalid encoded integer: missing 'e'",
                                   "Invalid encoded integer: non-numeric content"}
UnterminatedContainerKind(r) ==
    IsDecodeError(r) /\ r.msg \in {"Invalid Bencoded list: missing 'e'",
                                   "Invalid Bencoded dictionary: missing 'e'",
                                   "Invalid bencoded list: missing 'e'",
                                   "Invalid bencoded dictionary: missing 'e'"}
KeyTypeErrorKind(r) ==
    IsDecodeError(r) /\ r.msg \in {"Invalid Bencoded dictionary: key must be a string",
                                   "Invalid bencoded dictionary: key must be a string"}

\* the number a run of ASCII digits spells
RECURSIVE DecimalValue(_)
DecimalValue(s) ==
    IF s = <<>> THEN 0
    ELSE 10 * DecimalValue(SubSeq(s, 1, Len(s) - 1)) + (s[Len(s)] - 48)

AllAsciiDigits(s) == s # <<>> /\ \A j \in 1..Len(s) : s[j] \in 48..57

\* the input starts with one or more ASCII digits followed at once by ':'
HasDecimalPrefix(in) ==
    LET c == Find(in, OrdColon, 0) IN c >= 1 /\ AllAsciiDigits(SubSeq(in, 1, c))

\* an optional single '-' followed by one or more ASCII digits
StrictInteger(s) == AllAsciiDigits(IF s # <<>> /\ s[1] = 45 THEN Tail(s) ELSE s)

\* every dict of the value, at every depth, has only bytes keys
RECURSIVE AllKeysBytes(_)
AllKeysBytes(v) ==
    IF v.t = "list" THEN \A j \in 1..Len(v.xs) : AllKeysBytes(v.xs[j])
    ELSE IF v.t = "dict"
    THEN \A j \in 1..Len(v.items) : v.items[j].k.t = "bytes" /\ AllKeysBytes(v.items[j].v)
    ELSE TRUE

\* every dict of the value, at every depth, holds its keys in strictly
\* ascending byte order
RECURSIVE KeysAscending(_)
KeysAscending(v) ==
    IF v.t = "list" THEN \A j \in 1..Len(v.xs) : KeysAscending(v.xs[j])
    ELSE IF v.t = "dict"
    THEN /\ \A j \in 1..(Len(v.items) - 1) :
                BytesLess(v.items[j].k.b, v.items[j + 1].k.b)
         /\ \A j \in 1..Len(v.items) : KeysAscending(v.items[j].v)
    ELSE TRUE

\* some dict of the value holds two or more keys
RECURSIVE HasWideDict(_)
HasWideDict(v) ==
    IF v.t = "list" THEN \E j \in 1..Len(v.xs) : HasWideDict(v.xs[j])
    ELSE IF v.t = "dict"
    THEN Len(v.items) >= 2 \/ \E j \in 1..Len(v.items) : HasWideDict(v.items[j].v)
    ELSE FALSE

(***************************************************************************)
(* C1: round trip.                                                         *)
(***************************************************************************)
\* C1: for every value v of integers, byte strings, lists and dicts with
\* distinct bytes keys, decode_bencode(encode_bencode(v)) succeeds with a
\* value equal to v and an empty remainder.
C1_RoundTrip ==
    pc = "roundtrip" =>
        /\ IsValue(decoded)
        /\ PyEq(decoded.value, obj)
        /\ PyEq(obj, decoded.value)
        /\ decoded.rest = <<>>

C1_Witness ==
    /\ pc = "roundtrip"
    /\ obj.t = "dict"
    /\ Len(obj.items) = 2
    /\ \E j \in 1..2 : obj.items[j].v = PyInt(-12)
    /\ IsValue(decoded)
    /\ decoded.value # obj

(***************************************************************************)
(* C2: sort invariance.                                                    *)
(***************************************************************************)
\* C2: encode_bencode emits the entries of every dict, at every depth, in
\* ascending byte order of the raw keys whatever the insertion order, so two
\* dicts holding the same pairs built in different orders have the same
\* encoding and the same info hash.
C2_SortInvariance ==
    /\ pc \in {"encoded", "roundtrip"} => encoded = encoded_other
    /\ pc = "roundtrip" => IsValue(decoded) /\ KeysAscending(decoded.value)
    /\ pc = "hashed" => digest = digest_other

C2_Witness ==
    /\ pc = "roundtrip"
    /\ obj # other
    /\ obj.t = "list"
    /\ HasWideDict(obj)
    /\ ~KeysAscending(obj)
    /\ encoded = encoded_other

(***************************************************************************)
(* C3: integer strictness.                                                 *)
(***************************************************************************)
\* C3: an input starting with 'i' decodes only when the bytes between 'i' and
\* the first 'e' after it are an optional single '-' and one or more ASCII
\* digits; a missing 'e' or anything else in the span is rejected as a
\* malformed integer.
C3_IntegerStrictness ==
    /\ pc = "decoded" /\ input # <<>> /\ input[1] = OrdI =>
        LET e == Find(input, OrdE, 1)
        IN  (e # -1 /\ StrictInteger(Slice(input, 1, e))) \/ MalformedIntegerKind(result)
    /\ pc = "main_decoded" /\ input # <<>> /\ input[1] = OrdI =>
        LET e == Find(input, OrdE, 1)
        IN  (e # -1 /\ StrictInteger(Slice(input, 1, e))) \/ MalformedIntegerKind(mresult)

(***************************************************************************)
(* C4: length-prefix boundary.                                             *)
(***************************************************************************)
\* what C4 requires of the result r of decoding in
StringContract(r, in) ==
    LET c == Find(in, OrdColon, 0)
        L == DecimalValue(SubSeq(in, 1, c))
    IN  IF Len(in) - (c + 1) >= L
        THEN /\ IsValue(r)
             /\ r.value = PyBytes(SubSeq(in, c + 2, c + 1 + L))
             /\ r.rest = SubSeq(in, c + 2 + L, Len(in))
        ELSE LengthMismatchKind(r) /\ r.value = PyNone

\* C4: when the input starts with a decimal length L and ':', decoding yields
\* exactly the L bytes after the colon and the bytes after those as the
\* remainder if at least L bytes follow the colon; otherwise it fails with a
\* length error and no truncated string.
C4_LengthPrefixBoundary ==
    /\ pc \in {"decoded", "framed"} /\ HasDecimalPrefix(input) => StringContract(result, input)
    /\ pc = "framed" /\ HasDecimalPrefix(input) => StringContract(framed, input \o tail)
    /\ pc = "main_decoded" /\ HasDecimalPrefix(input) => StringContract(mresult, input)

C4_Witness ==
    /\ pc = "decoded"
    /\ HasDecimalPrefix(input)
    /\ IsValue(result)
    /\ Len(result.value.b) = 10
    /\ result.rest = <<>>

(***************************************************************************)
(* C5: length-prefix syntax.                                               *)
(***************************************************************************)
\* C5: a string is decoded only when the leading run of ASCII digits is ended
\* at once by ':'; when a byte that is no ASCII digit comes before the first
\* ':', or there is no ':', the decode is rejected as a malformed length.
C5_LengthPrefixSyntax ==
    /\ pc = "decoded" /\ input # <<>> /\ input[1] \in 48..57 /\ ~HasDecimalPrefix(input)
        => MalformedLengthKind(result)
    /\ pc = "main_decoded" /\ input # <<>> /\ input[1] \in 48..57 /\ ~HasDecimalPrefix(input)
        => MalformedLengthKind(mresult)

(***************************************************************************)
(* C6: unterminated containers.                                            *)
(***************************************************************************)
\* The input is a list or dict whose bytes end before its closing 'e': right
\* after 'l' or 'd', after a complete element, after a key with no value, or
\* inside a last element that is itself such a list or dict.
RECURSIVE EndsUnterminated(_)
RECURSIVE EndsInList(_)
RECURSIVE EndsAtKey(_)
RECURSIVE EndsAtValue(_)

EndsInList(rest) ==
    \/ rest = <<>>
    \/ /\ rest[1] # OrdE
       /\ \/ EndsUnterminated(rest)
          \/ LET item == decode_bencode(rest)
             IN  IsValue(item) /\ EndsInList(item.rest)

EndsAtKey(rest) ==
    \/ rest = <<>>
    \/ /\ rest[1] # OrdE
       /\ LET key == decode_bencode(rest)
          IN  IsValue(key) /\ key.value.t = "bytes" /\ EndsAtValue(key.rest)

EndsAtValue(rest) ==
    \/ rest = <<>>
    \/ EndsUnterminated(rest)
    \/ LET value == decode_bencode(rest)
       IN  IsValue(value) /\ EndsAtKey(value.rest)

EndsUnterminated(in) ==
    /\ in # <<>>
    /\ \/ in[1] = OrdL /\ EndsInList(Tail(in))
       \/ in[1] = OrdD /\ EndsAtKey(Tail(in))

\* C6: every list or dict input whose bytes end before its closing 'e' fails
\* with the unterminated-container error (missing 'e'), never with another
\* error kind and never with a value.
C6_UnterminatedContainers ==
    /\ pc = "decoded" /\ EndsUnterminated(input) => UnterminatedContainerKind(result)
    /\ pc = "main_decoded" /\ EndsUnterminated(input) => UnterminatedContainerKind(mresult)

(***************************************************************************)
(* C7: dispatch fallthrough.                                               *)
(***************************************************************************)
\* C7: decoding empty input fails with the empty-input error, and decoding an
\* input whose first byte is none of '0'..'9', 'i', 'l', 'd' fails with the
\* unsupported-type error.
C7_DispatchFallthrough ==
    /\ pc = "decoded" /\ input = <<>> => EmptyInputKind(result)
    /\ pc = "decoded" /\ input # <<>> /\ input[1] \notin (48..57) \cup {OrdI, OrdL, OrdD}
        => UnsupportedTypeKind(result)
    /\ pc = "main_decoded" /\ input = <<>> => EmptyInputKind(mresult)
    /\ pc = "main_decoded" /\ input # <<>> /\ input[1] \notin (48..57) \cup {OrdI, OrdL, OrdD}
        => UnsupportedTypeKind(mresult)

(***************************************************************************)
(* C8: dictionary key typing.                                              *)
(***************************************************************************)
\* some key position of the dict body rest holds a complete value that is no
\* byte string
RECURSIVE BadKeyIn(_)
BadKeyIn(rest) ==
    /\ rest # <<>>
    /\ rest[1] # OrdE
    /\ LET key == decode_bencode(rest)
       IN  /\ IsValue(key)
           /\ \/ key.value.t # "bytes"
              \/ LET value == decode_bencode(key.rest)
                 IN  IsValue(value) /\ BadKeyIn(value.rest)

\* the input is a dict with such a key, or a list whose first element is one
HasBadKey(in) ==
    /\ in # <<>>
    /\ \/ in[1] = OrdD /\ BadKeyIn(Tail(in))
       \/ in[1] = OrdL /\ Len(in) >= 2 /\ in[2] = OrdD /\ BadKeyIn(Tail(Tail(in)))

\* C8: when a key position of a dict decodes to an integer, list or dict the
\* whole decode fails with the key-type error; so every dict a successful
\* decode returns, at every depth, has only bytes keys.
C8_DictionaryKeyTyping ==
    /\ pc \in {"decoded", "framed"} /\ HasBadKey(input) => KeyTypeErrorKind(result)
    /\ pc \in {"decoded", "framed"} /\ IsValue(result) => AllKeysBytes(result.value)
    /\ pc = "framed" /\ IsValue(framed) => AllKeysBytes(framed.value)
    /\ pc = "main_decoded" /\ HasBadKey(input) => KeyTypeErrorKind(mresult)
    /\ pc = "main_decoded" /\ IsValue(mresult) => AllKeysBytes(mresult.value)

C8_Witness ==
    /\ pc = "decoded"
    /\ input[1] = OrdD
    /\ BadKeyIn(Tail(input))
    /\ decode_bencode(Tail(input)).value.t = "bytes"
    /\ KeyTypeErrorKind(result)

(***************************************************************************)
(* C9: cursor progress.                                                    *)
(***************************************************************************)
\* r, the result of decoding in, consumed at least one byte and left a
\* remainder that is the rest of in after the consumed prefix
Progress(r, in) ==
    /\ Len(r.rest) < Len(in)
    /\ r.rest = SubSeq(in, Len(in) - Len(r.rest) + 1, Len(in))
    /\ SubSeq(in, 1, Len(in) - Len(r.rest)) \o r.rest = in

\* C9: every successful decode_bencode call consumes at least one byte and
\* returns a proper suffix of its input as the remainder, and every call ends
\* with a value or an error.  (Every suffix of an input of at most MaxLen bytes
\* is itself an input, so the nested calls are covered.)
C9_CursorProgress ==
    /\ pc \in {"decoded", "framed"} => IsValue(result) \/ IsError(result)
    /\ pc \in {"decoded", "framed"} /\ IsValue(result) => Progress(result, input)
    /\ pc = "framed" => IsValue(framed) \/ IsError(framed)
    /\ pc = "framed" /\ IsValue(framed) => Progress(framed, input \o tail)

C9_Witness ==
    /\ pc = "framed"
    /\ IsValue(framed)
    /\ framed.value.t = "list"
    /\ Len(framed.value.xs) = 2
    /\ framed.rest # <<>>
    /\ Len(framed.rest) < Len(input \o tail)

(***************************************************************************)
(* C10: framing independence.                                              *)
(***************************************************************************)
\* C10: if decode_bencode(p) succeeds with value v and an empty remainder then
\* for the bytes r, decode_bencode(p + r) succeeds with v and remainder r.
C10_FramingIndependence ==
    pc = "framed" /\ IsValue(result) /\ result.rest = <<>> => framed = Ok(result.value, tail)

C10_Witness ==
    /\ pc = "framed"
    /\ IsValue(result)
    /\ result.rest = <<>>
    /\ result.value.t = "dict"
    /\ Len(result.value.items) = 1
    /\ tail = <<OrdE>>
    /\ framed = Ok(result.value, tail)

====
